---------------------------- MODULE Spec2Model ----------------------------
(***************************************************************************)
(* Model of app_opcion2.py: the start-up pipeline that turns the wide      *)
(* article table into the long table, the aggregate table and the two      *)
(* hierarchical axes, and the show_details callback that answers a click.  *)
(*                                                                         *)
(* A Python str is a sequence of one-character strings, so that            *)
(* concatenation, startswith, split, strip, lower and the regular          *)
(* expression of l2_num_prefix are computed character by character.        *)
(* A table cell is a record: a str, a number (the fraction n/d, d > 0),   *)
(* NaN or None.  A DataFrame is [cols, rows]: the set of its column names  *)
(* and the sequence of its rows, each a function from cols to cells.       *)
(***************************************************************************)
EXTENDS Integers, Sequences, FiniteSets, TLC

VARIABLES
    pc,          \* position in the module-level script; "serve" once the app runs
    df,          \* the wide table (read_parquet, then _clean)
    long,        \* the long table
    agg,         \* the aggregate table
    order_y,     \* Y-axis category keys, top to bottom
    y_ticktext,  \* the tick label of each entry of order_y
    y_src,       \* history: the aggregate row (or header) behind each entry of order_y
    order_x,     \* X-axis category keys
    sessions,    \* the browser sessions that have the page open
    detail       \* per session: the last click answered and the callback's answer

vars == <<pc, df, long, agg, order_y, y_ticktext, y_src, order_x, sessions, detail>>

---------------------------------------------------------------------------
(* Bounds of the model *)

\* the most rows the wide table holds
MaxRows == 2

---------------------------------------------------------------------------
(* Characters and Python str operations *)

\* the characters of the model's strings, in code point order
Chars ==
    <<" ", ")", ".">> \o <<"0", "1", "2", "3", "4", "5", "6", "7", "8", "9">> \o <<"A", "B", "C", "D", "E", "F", "G", "H", "I", "J", "K", "L", "M", "N", "O", "P", "Q", "R", "S", "T", "U", "V", "W", "X", "Y", "Z">>
    \o <<"_">> \o <<"a", "b", "c", "d", "e", "f", "g", "h", "i", "j", "k", "l", "m", "n", "o", "p", "q", "r", "s", "t", "u", "v", "w", "x", "y", "z">> \o <<"|">>

Digits == <<"0", "1", "2", "3", "4", "5", "6", "7", "8", "9">>

UpperCase == <<"A", "B", "C", "D", "E", "F", "G", "H", "I", "J", "K", "L", "M", "N", "O", "P", "Q", "R", "S", "T", "U", "V", "W", "X", "Y", "Z">>

LowerCase == <<"a", "b", "c", "d", "e", "f", "g", "h", "i", "j", "k", "l", "m", "n", "o", "p", "q", "r", "s", "t", "u", "v", "w", "x", "y", "z">>

IndexIn(c, seq) == CHOOSE i \in 1..Len(seq) : seq[i] = c

IsIn(c, seq) == \E i \in 1..Len(seq) : seq[i] = c

Ord(c) == IndexIn(c, Chars)

\* str.lower
Lower(s) ==
    [i \in 1..Len(s) |->
        IF IsIn(s[i], UpperCase) THEN LowerCase[IndexIn(s[i], UpperCase)] ELSE s[i]]

\* str.startswith
StartsWith(s, p) == Len(s) >= Len(p) /\ SubSeq(s, 1, Len(p)) = p

\* str.find, 1-based; 0 when sep does not occur
Find(s, sep) ==
    LET hits == {i \in 1..(Len(s) - Len(sep) + 1) : SubSeq(s, i, i + Len(sep) - 1) = sep}
    IN  IF hits = {} THEN 0 ELSE CHOOSE i \in hits : \A j \in hits : i <= j

\* s.split(sep, 1): the list of one or two parts
Split1(s, sep) ==
    LET i == Find(s, sep)
    IN  IF i = 0 THEN <<s>>
        ELSE <<SubSeq(s, 1, i - 1), SubSeq(s, i + Len(sep), Len(s))>>

\* str.strip
Strip(s) ==
    LET keep == {i \in 1..Len(s) : s[i] # " "}
    IN  IF keep = {} THEN <<>>
        ELSE SubSeq(s, CHOOSE i \in keep : \A j \in keep : i <= j,
                       CHOOSE i \in keep : \A j \in keep : i >= j)

\* a < b on Python strs: lexicographic by code point
StrLess(a, b) ==
    LET m == IF Len(a) < Len(b) THEN Len(a) ELSE Len(b)
        diff == {i \in 1..m : a[i] # b[i]}
    IN  IF diff = {} THEN Len(a) < Len(b)
        ELSE LET i == CHOOSE k \in diff : \A j \in diff : k <= j
             IN  Ord(a[i]) < Ord(b[i])

RECURSIVE ToInt(_)
\* int() of a string of decimal digits
ToInt(ds) ==
    IF ds = <<>> THEN 0
    ELSE 10 * ToInt(SubSeq(ds, 1, Len(ds) - 1)) + (IndexIn(ds[Len(ds)], Digits) - 1)

---------------------------------------------------------------------------
(* Table cells *)

Str(s) == [k |-> "str", s |-> s, n |-> 0, d |-> 1]

Num(n, d) == [k |-> "num", s |-> <<>>, n |-> n, d |-> d]

NaN == [k |-> "nan", s |-> <<>>, n |-> 0, d |-> 1]

None == [k |-> "none", s |-> <<>>, n |-> 0, d |-> 1]

\* pd.isna
isna(x) == x.k \in {"nan", "none"}

\* str(x) of a cell
PyStr(x) == IF x.k = "str" THEN x.s ELSE <<"n", "a", "n">>

\* comparisons of number cells, by cross-multiplication (denominators are positive)
NumGe(a, b) == a.n * b.d >= b.n * a.d

NumGt(a, b) == a.n * b.d > b.n * a.d

NumEq(a, b) == a.n * b.d = b.n * a.d

RECURSIVE SumCells(_)
SumCells(xs) ==
    IF xs = <<>> THEN Num(0, 1)
    ELSE LET t == SumCells(Tail(xs))
             h == Head(xs)
         IN  Num(h.n * t.d + t.n * h.d, h.d * t.d)

\* Series.mean(): the arithmetic mean of the non-missing values, NaN when there is none
Mean(xs) ==
    LET vals == SelectSeq(xs, LAMBDA x : ~isna(x))
    IN  IF vals = <<>> THEN NaN
        ELSE LET s == SumCells(vals) IN Num(s.n, s.d * Len(vals))

---------------------------------------------------------------------------
(* Column aliases *)

COL_L1 == "INTERVENTION_Level 1_One Health Capability"
COL_L2 == "INTERVENTION_Level 2"
COL_INT_OUT == "INTERMEDIATE OUTCOME_Classification (dropdown)\n"
COL_FIN_OUT == "OUTCOME_Classification (dropdown)\n\n"
COL_INT_STRENGTH == "_strength"
COL_FIN_STRENGTH == "_strength_final"
COL_INT_SIGN == "_sign"
COL_FIN_SIGN == "_sign_final"
COL_IMP_OUT == "IMPACT_Classification (dropdown)\nAMR burden reduced = Impact"
COL_IMP_STRENGTH == "_strength_impact"
COL_IMP_SIGN == "_sign_impact"
COL_IMP_TEXT == "IMPACT TEXT (verbatim)"
COL_TITLE == "Title \n(213 articles)"
COL_YEAR == "Publication Year"
COL_GEOG == "Geography_Location"
COL_INT_TEXT == "INTERMEDIATE OUTCOME TEXT (verbatim)"
COL_INTERV_TEXT == "INTERVENTION TEXT (verbatim)\n"
COL_OUT_TEXT == "OUTCOME TEXT (verbatim)"

\* the columns of the wide table of this model: the taxonomy, the three outcome
\* blocks and the title; the other free-text columns are absent from the file
DfCols ==
    {COL_L1, COL_L2, COL_TITLE,
     COL_INT_OUT, COL_INT_STRENGTH, COL_INT_SIGN,
     COL_FIN_OUT, COL_FIN_STRENGTH, COL_FIN_SIGN,
     COL_IMP_OUT, COL_IMP_STRENGTH, COL_IMP_SIGN}

EmptyFrame == [cols |-> {}, rows |-> <<>>]

---------------------------------------------------------------------------
(* Load and clean *)

\* _clean: strip a str, leave anything else
clean(x) == IF x.k = "str" THEN Str(Strip(x.s)) ELSE x

CleanCols == {COL_L1, COL_L2, COL_INT_OUT, COL_FIN_OUT, COL_IMP_OUT}

\* for c in [...]: if c in df.columns: df[c] = df[c].map(_clean)
CleanFrame(d) ==
    [cols |-> d.cols,
     rows |-> [i \in 1..Len(d.rows) |->
                 [c \in d.cols |->
                    IF c \in CleanCols THEN clean(d.rows[i][c]) ELSE d.rows[i][c]]]]

Clean ==
    /\ pc = "clean"
    /\ df' = CleanFrame(df)
    /\ pc' = "long"
    /\ UNCHANGED <<long, agg, order_y, y_ticktext, y_src, order_x, sessions, detail>>

---------------------------------------------------------------------------
(* Long-format table *)

keep_base ==
    {COL_L1, COL_L2, COL_TITLE, COL_YEAR, COL_GEOG,
     COL_INT_TEXT, COL_INTERV_TEXT, COL_OUT_TEXT, COL_IMP_TEXT}

cols_keep(d) == keep_base \cap d.cols

AssignedCols == {"outcome_type", "outcome_name", "strength", "sign"}

\* df[cols].dropna(subset=[COL_L1, COL_L2, out], how="any").assign(...)
TierLong(d, out, st, sg, type) ==
    LET kept == SelectSeq(d.rows,
                    LAMBDA r : ~isna(r[COL_L1]) /\ ~isna(r[COL_L2]) /\ ~isna(r[out]))
        cols == cols_keep(d) \cup {out, st, sg} \cup AssignedCols
    IN  [cols |-> cols,
         rows |-> [i \in 1..Len(kept) |->
                     [c \in cols |->
                        CASE c = "outcome_type" -> Str(type)
                          [] c = "outcome_name" -> kept[i][out]
                          [] c = "strength"     -> kept[i][st]
                          [] c = "sign"         -> kept[i][sg]
                          [] OTHER              -> kept[i][c]]]]

IntermediateOutcomes == <<"I", "n", "t", "e", "r", "m", "e", "d", "i", "a", "t", "e", " ", "O", "u", "t", "c", "o", "m", "e", "s">>

FinalOutcomes == <<"F", "i", "n", "a", "l", " ", "O", "u", "t", "c", "o", "m", "e", "s">>

Impact == <<"I", "m", "p", "a", "c", "t">>

int_long(d) == TierLong(d, COL_INT_OUT, COL_INT_STRENGTH, COL_INT_SIGN, IntermediateOutcomes)

fin_long(d) == TierLong(d, COL_FIN_OUT, COL_FIN_STRENGTH, COL_FIN_SIGN, FinalOutcomes)

\* the Impact block, or an empty frame of int_long's columns when its columns are missing
imp_long(d) ==
    IF {COL_IMP_OUT, COL_IMP_STRENGTH, COL_IMP_SIGN} \subseteq d.cols
    THEN TierLong(d, COL_IMP_OUT, COL_IMP_STRENGTH, COL_IMP_SIGN, Impact)
    ELSE [cols |-> int_long(d).cols, rows |-> <<>>]

\* a row widened to cols, NaN where it has no value
Widen(r, cols) == [c \in cols |-> IF c \in DOMAIN r THEN r[c] ELSE NaN]

\* pd.concat([a, b, c], ignore_index=True)
concat(a, b, c) ==
    LET cols == a.cols \cup b.cols \cup c.cols
        rows == a.rows \o b.rows \o c.rows
    IN  [cols |-> cols, rows |-> [i \in 1..Len(rows) |-> Widen(rows[i], cols)]]

BuildLong ==
    /\ pc = "long"
    /\ long' = concat(int_long(df), fin_long(df), imp_long(df))
    /\ pc' = "agg"
    /\ UNCHANGED <<df, agg, order_y, y_ticktext, y_src, order_x, sessions, detail>>

---------------------------------------------------------------------------
(* Aggregation *)

GroupKey(r) == <<r[COL_L1], r[COL_L2], r["outcome_type"], r["outcome_name"]>>

\* the order of the group keys: tuples of strs, compared component by component
KeyLess(a, b) ==
    \E i \in 1..4 :
        /\ \A j \in 1..(i - 1) : a[j] = b[j]
        /\ StrLess(PyStr(a[i]), PyStr(b[i]))

RECURSIVE SortKeys(_)
SortKeys(S) ==
    IF S = {} THEN <<>>
    ELSE LET m == CHOOSE x \in S : \A y \in S \ {x} : KeyLess(x, y)
         IN  <<m>> \o SortKeys(S \ {m})

\* GroupRows grouping by the intervention alone: groupby([COL_L1, COL_L2])
GroupRowsByIntervention(lg, g) ==
    SelectSeq(lg.rows, LAMBDA r : r[COL_L1] = g[1] /\ r[COL_L2] = g[2])

\* the rows of the long table that groupby puts in group g
GroupRows(lg, g) == SelectSeq(lg.rows, LAMBDA r : GroupKey(r) = g)

Column(rows, c) == [i \in 1..Len(rows) |-> rows[i][c]]

\* ---- labels of strength and direction ----
\* map_strength_label with x > 2.6 for "high"
map_strength_label_strict(x) ==
    IF isna(x) THEN Str(<<"N", "/", "A">>)
    ELSE IF NumGt(x, Num(26, 10)) THEN Str(<<"h", "i", "g", "h">>)
    ELSE IF NumGe(x, Num(24, 10)) THEN Str(<<"m", "o", "d", "e", "r", "a", "t", "e">>)
    ELSE IF NumGe(x, Num(15, 10)) THEN Str(<<"l", "o", "w", "-", "m", "o", "d", "e", "r", "a", "t", "e">>)
    ELSE IF NumGe(x, Num(10, 10)) THEN Str(<<"l", "o", "w">>)
    ELSE Str(<<"v", "e", "r", "y", " ", "l", "o", "w">>)

map_strength_label(x) ==
    IF isna(x) THEN Str(<<"N", "/", "A">>)
    ELSE IF NumGe(x, Num(26, 10)) THEN Str(<<"h", "i", "g", "h">>)
    ELSE IF NumGe(x, Num(24, 10)) THEN Str(<<"m", "o", "d", "e", "r", "a", "t", "e">>)
    ELSE IF NumGe(x, Num(15, 10)) THEN Str(<<"l", "o", "w", "-", "m", "o", "d", "e", "r", "a", "t", "e">>)
    ELSE IF NumGe(x, Num(10, 10)) THEN Str(<<"l", "o", "w">>)
    ELSE Str(<<"v", "e", "r", "y", " ", "l", "o", "w">>)

\* map_direction_label with -0.5 <= x < 0.5 for "inconclusive/mixed"
map_direction_label_shifted(x) ==
    IF isna(x) THEN Str(<<"N", "/", "A">>)
    ELSE IF NumEq(x, Num(1, 1)) THEN Str(<<"p", "o", "s", "i", "t", "i", "v", "e">>)
    ELSE IF NumGe(x, Num(1, 2)) /\ NumGt(Num(1, 1), x) THEN Str(<<"m", "o", "s", "t", "l", "y", " ", "p", "o", "s", "i", "t", "i", "v", "e">>)
    ELSE IF NumGe(x, Num(-1, 2)) /\ NumGt(Num(1, 2), x) THEN Str(<<"i", "n", "c", "o", "n", "c", "l", "u", "s", "i", "v", "e", "/", "m", "i", "x", "e", "d">>)
    ELSE IF NumGt(x, Num(-1, 1)) /\ NumGt(Num(-1, 2), x) THEN Str(<<"m", "o", "s", "t", "l", "y", " ", "n", "e", "g", "a", "t", "i", "v", "e">>)
    ELSE IF NumEq(x, Num(-1, 1)) THEN Str(<<"n", "e", "g", "a", "t", "i", "v", "e">>)
    ELSE None

map_direction_label(x) ==
    IF isna(x) THEN Str(<<"N", "/", "A">>)
    ELSE IF NumEq(x, Num(1, 1)) THEN Str(<<"p", "o", "s", "i", "t", "i", "v", "e">>)
    ELSE IF NumGt(x, Num(1, 2)) /\ NumGt(Num(1, 1), x) THEN Str(<<"m", "o", "s", "t", "l", "y", " ", "p", "o", "s", "i", "t", "i", "v", "e">>)
    ELSE IF NumGt(x, Num(-1, 2)) /\ NumGe(Num(1, 2), x) THEN Str(<<"i", "n", "c", "o", "n", "c", "l", "u", "s", "i", "v", "e", "/", "m", "i", "x", "e", "d">>)
    ELSE IF NumGt(x, Num(-1, 1)) /\ NumGe(Num(-1, 2), x) THEN Str(<<"m", "o", "s", "t", "l", "y", " ", "n", "e", "g", "a", "t", "i", "v", "e">>)
    ELSE IF NumEq(x, Num(-1, 1)) THEN Str(<<"n", "e", "g", "a", "t", "i", "v", "e">>)
    ELSE None

AggCols ==
    {COL_L1, COL_L2, "outcome_type", "outcome_name", "n", "mean_strength",
     "mean_direction", "strength_label", "direction_label"}

\* one aggregate row: the group's key, its size and its two means, then the labels
AggRow(lg, g) ==
    LET rows == GroupRows(lg, g)
        ms == Mean(Column(rows, "strength"))
        md == Mean(Column(rows, "sign"))
    IN  [c \in AggCols |->
            CASE c = COL_L1            -> g[1]
              [] c = COL_L2            -> g[2]
              [] c = "outcome_type"    -> g[3]
              [] c = "outcome_name"    -> g[4]
              [] c = "n"               -> Num(Len(rows), 1)
              [] c = "mean_strength"   -> ms
              [] c = "mean_direction"  -> md
              [] c = "strength_label"  -> map_strength_label(ms)
              [] c = "direction_label" -> map_direction_label(md)]

\* long.groupby([...], dropna=False).agg(...).reset_index(): one row per group,
\* in the sorted order of the group keys
Aggregated(lg) ==
    LET keys == SortKeys({GroupKey(lg.rows[i]) : i \in 1..Len(lg.rows)})
    IN  [cols |-> AggCols, rows |-> [i \in 1..Len(keys) |-> AggRow(lg, keys[i])]]

Aggregate ==
    /\ pc = "agg"
    /\ agg' = Aggregated(long)
    /\ pc' = "yaxis"
    /\ UNCHANGED <<df, long, order_y, y_ticktext, y_src, order_x, sessions, detail>>

---------------------------------------------------------------------------
(* Utils *)

HDR_PREFIX_Y == <<"_", "_", "H", "D", "R", "_", "_">>

ROW_PREFIX_Y == <<"_", "_", "R", "O", "W", "_", "_">>

HDR_PREFIX_X == <<"_", "_", "X", "H", "D", "R", "_", "_">>

COL_PREFIX_X == <<"_", "_", "X", "C", "O", "L", "_", "_">>

\* the separator " || " of the two fields of a key
SEP == <<" ", "|", "|", " ">>

\* two EM spaces
INDENT == <<"EMSP", "EMSP">>

BULLET == <<"BULLET">>

RECURSIVE Join(_, _)
\* sep.join(lines)
Join(sep, lines) ==
    IF lines = <<>> THEN <<>>
    ELSE IF Len(lines) = 1 THEN lines[1]
    ELSE lines[1] \o sep \o Join(sep, Tail(lines))

\* textwrap.wrap(s, width) for a text of at most width characters without tab,
\* hyphen, leading or trailing blank, which is every text of this model: the
\* one line s, or no line for the empty text
wrap(s, width) == IF s = <<>> THEN <<>> ELSE <<s>>

wrap_lines(x, width, max_lines) ==
    LET s == IF isna(x) THEN <<>> ELSE PyStr(x)
        lines == wrap(s, width)
        cut == IF Len(lines) > max_lines
               THEN SubSeq(lines, 1, max_lines - 1)
                    \o <<Join(<<" ">>, SubSeq(lines, max_lines, Len(lines)))>>
               ELSE lines
    IN  Join(<<"\n">>, cut)

make_row_label(x, width, max_lines) ==
    INDENT \o BULLET \o <<" ">> \o wrap_lines(x, width, max_lines)

\* re.match(r"\s*(\d+)[\.\)]", s): the digits of group 1, or <<>> when s does not match
l2_match(s) ==
    LET nonblank == {i \in 1..Len(s) : s[i] # " "}
        first == IF nonblank = {} THEN Len(s) + 1
                 ELSE CHOOSE i \in nonblank : \A j \in nonblank : i <= j
        nondigit == {i \in first..Len(s) : ~IsIn(s[i], Digits)}
        stop == IF nondigit = {} THEN Len(s) + 1
                ELSE CHOOSE i \in nondigit : \A j \in nondigit : i <= j
    IN  IF stop > first /\ stop <= Len(s) /\ s[stop] \in {".", ")"}
        THEN SubSeq(s, first, stop - 1)
        ELSE <<>>

l2_num_prefix(x) ==
    LET m == l2_match(PyStr(x))
    IN  IF m # <<>> THEN ToInt(m) ELSE 9999

---------------------------------------------------------------------------
(* Hierarchical Y axis *)

RECURSIVE Unique(_)
\* Series.unique(): the values in the order of their first appearance
Unique(xs) ==
    IF xs = <<>> THEN <<>>
    ELSE LET init == Unique(SubSeq(xs, 1, Len(xs) - 1))
             last == xs[Len(xs)]
         IN  IF \E i \in 1..Len(init) : init[i] = last THEN init ELSE init \o <<last>>

\* IsSurveillance without lower()
IsSurveillanceCaseSensitive(l) == StartsWith(PyStr(l), <<"s", "u", "r", "v", "e", "i", "l", "l", "a", "n", "c", "e">>)

IsSurveillance(l) == StartsWith(Lower(PyStr(l)), <<"s", "u", "r", "v", "e", "i", "l", "l", "a", "n", "c", "e">>)

\* unique_l1: the level-1 values of agg, those that start with "surveillance" first
unique_l1(a) ==
    LET u == Unique(SelectSeq(Column(a.rows, COL_L1), LAMBDA x : ~isna(x)))
    IN  SelectSeq(u, LAMBDA l : IsSurveillance(l))
        \o SelectSeq(u, LAMBDA l : ~IsSurveillance(l))

y_key(r) == Str(ROW_PREFIX_Y \o PyStr(r[COL_L1]) \o SEP \o PyStr(r[COL_L2]))

\* agg[name] = ...: agg with one more column
WithColumn(a, name, values) ==
    [cols |-> a.cols \cup {name},
     rows |-> [i \in 1..Len(a.rows) |->
                 [c \in a.cols \cup {name} |->
                    IF c = name THEN values[i] ELSE a.rows[i][c]]]]

RECURSIVE SortedOrders(_)
\* grp.sort_values(by=COL_L2, key=...): the rows in ascending order of their
\* numeric prefix; the default sort is not stable, so rows of equal prefix
\* may come in any order
SortedOrders(S) ==
    IF S = {} THEN {<<>>}
    ELSE LET least == {r \in S : \A q \in S : l2_num_prefix(r[COL_L2]) <= l2_num_prefix(q[COL_L2])}
         IN  UNION {{<<r>> \o t : t \in SortedOrders(S \ {r})} : r \in least}

HeaderEntry(l1) ==
    [key |-> HDR_PREFIX_Y \o PyStr(l1), text |-> <<" ">>, hdr |-> TRUE, l1 |-> l1, l2 |-> NaN]

RowEntry(r) ==
    [key |-> PyStr(r["y_key"]), text |-> make_row_label(r[COL_L2], 40, 3),
     hdr |-> FALSE, l1 |-> r[COL_L1], l2 |-> r[COL_L2]]

RECURSIVE YAxis(_, _)
\* the loop over unique_l1: for each level 1 its header, then its rows; the set
\* of the lists the loop can build
YAxis(a, l1s) ==
    IF l1s = <<>> THEN {<<>>}
    ELSE LET l1 == Head(l1s)
             grp == {a.rows[i] : i \in {j \in 1..Len(a.rows) : a.rows[j][COL_L1] = l1}}
         IN  {<<HeaderEntry(l1)>> \o [i \in 1..Len(rows) |-> RowEntry(rows[i])] \o rest :
                  rows \in SortedOrders(grp), rest \in YAxis(a, Tail(l1s))}

BuildYAxis ==
    /\ pc = "yaxis"
    /\ LET a == WithColumn(agg, "y_key", [i \in 1..Len(agg.rows) |-> y_key(agg.rows[i])])
       IN  /\ agg' = a
           /\ \E ents \in YAxis(a, unique_l1(agg)) :
                 /\ order_y' = [i \in 1..Len(ents) |-> ents[i].key]
                 /\ y_ticktext' = [i \in 1..Len(ents) |-> ents[i].text]
                 /\ y_src' = [i \in 1..Len(ents) |->
                                 [hdr |-> ents[i].hdr, l1 |-> ents[i].l1, l2 |-> ents[i].l2]]
    /\ pc' = "xaxis"
    /\ UNCHANGED <<df, long, order_x, sessions, detail>>

---------------------------------------------------------------------------
(* Hierarchical X axis *)

x_key(r) == Str(COL_PREFIX_X \o PyStr(r["outcome_type"]) \o SEP \o PyStr(r["outcome_name"]))

RECURSIVE SortStrs(_)
\* sort_values() on strs
SortStrs(S) ==
    IF S = {} THEN <<>>
    ELSE LET m == CHOOSE x \in S : \A y \in S \ {x} : StrLess(x, y)
         IN  <<m>> \o SortStrs(S \ {m})

OutcomeTypes == <<IntermediateOutcomes, FinalOutcomes, Impact>>

\* the sorted distinct outcome names of type t
subnames(a, t) ==
    SortStrs({PyStr(a.rows[i]["outcome_name"]) :
                 i \in {j \in 1..Len(a.rows) : a.rows[j]["outcome_type"] = Str(t)}})

x_items(a, t) ==
    LET names == subnames(a, t)
    IN  [i \in 1..Len(names) |-> COL_PREFIX_X \o t \o SEP \o names[i]]

RECURSIVE XAxis(_, _)
\* for t in [...]: the header of t, then the keys of its outcome names
XAxis(a, ts) ==
    IF ts = <<>> THEN <<>>
    ELSE <<HDR_PREFIX_X \o Head(ts)>> \o x_items(a, Head(ts)) \o XAxis(a, Tail(ts))

BuildXAxis ==
    /\ pc = "xaxis"
    /\ agg' = WithColumn(agg, "x_key", [i \in 1..Len(agg.rows) |-> x_key(agg.rows[i])])
    /\ order_x' = XAxis(agg, OutcomeTypes)
    /\ pc' = "serve"
    /\ UNCHANGED <<df, long, order_y, y_ticktext, y_src, sessions, detail>>

---------------------------------------------------------------------------
(* The callback *)

\* clickData: None, an empty dict, or the x and y of the clicked point
NoClick == [kind |-> "none", x |-> <<>>, y |-> <<>>]

EmptyClick == [kind |-> "empty", x |-> <<>>, y |-> <<>>]

Point(x, y) == [kind |-> "point", x |-> x, y |-> y]

cols_show ==
    {COL_TITLE, COL_YEAR, COL_GEOG, COL_INTERV_TEXT,
     COL_INT_TEXT, COL_OUT_TEXT, COL_IMP_TEXT,
     COL_INT_STRENGTH, COL_FIN_STRENGTH, COL_IMP_STRENGTH,
     COL_INT_SIGN, COL_FIN_SIGN, COL_IMP_SIGN}

\* the two placeholder titles, and the title of a detail list: the fields the
\* f-string puts in it
Message(kind) ==
    [kind |-> kind, outcome_type |-> <<>>, outcome_name |-> <<>>,
     l1 |-> <<>>, l2 |-> <<>>, count |-> 0]

ClickPrompt == Message("Click a bubble to see the article list.")

SelectPrompt == Message("Select a bubble (row Level 2 x outcome) to see details.")

DetailTitle(outcome_type, outcome_name, l1, l2, count) ==
    [kind |-> "detail", outcome_type |-> outcome_type, outcome_name |-> outcome_name,
     l1 |-> l1, l2 |-> l2, count |-> count]

\* what one run of the callback gives: the records and the title it returns, the
\* exception it raises ("" when none), and whether it read the long table
Answer(data, title, error, read_long) ==
    [data |-> data, title |-> title, error |-> error, read_long |-> read_long]

Raised(error) == Answer(<<>>, Message(""), error, FALSE)

\* _, rest = key.split(prefix, 1); a, b = rest.split(" || ", 1): the pair <<a, b>>,
\* or <<>> when an unpacking finds one part only
ParseKey(key, prefix) ==
    LET parts == Split1(key, prefix)
    IN  IF Len(parts) # 2 THEN <<>>
        ELSE LET fields == Split1(parts[2], SEP)
             IN  IF Len(fields) # 2 THEN <<>> ELSE fields

\* long.loc[mask].copy(), the missing columns of cols_show added to the copy
Selected(l1, l2, outcome_type, outcome_name) ==
    LET sub == SelectSeq(long.rows,
                   LAMBDA r : /\ r[COL_L1] = Str(l1)
                              /\ r[COL_L2] = Str(l2)
                              /\ r["outcome_type"] = Str(outcome_type)
                              /\ r["outcome_name"] = Str(outcome_name))
    IN  [i \in 1..Len(sub) |-> Widen(sub[i], long.cols \cup cols_show)]

\* show_details without the test of the two prefixes
show_details_unguarded(clickData) ==
    IF clickData.kind \in {"none", "empty"} THEN Answer(<<>>, ClickPrompt, "", FALSE)
    ELSE LET px == ParseKey(clickData.x, COL_PREFIX_X)
             py == ParseKey(clickData.y, ROW_PREFIX_Y)
         IN  IF px = <<>> \/ py = <<>> THEN Raised("ValueError")
             ELSE LET sub == Selected(py[1], py[2], px[1], px[2])
                  IN  Answer([i \in 1..Len(sub) |-> [c \in cols_show |-> sub[i][c]]],
                             DetailTitle(px[1], px[2], py[1], py[2], Len(sub)),
                             "", TRUE)

show_details(clickData) ==
    IF clickData.kind \in {"none", "empty"} THEN Answer(<<>>, ClickPrompt, "", FALSE)
    ELSE IF ~(StartsWith(clickData.x, COL_PREFIX_X) /\ StartsWith(clickData.y, ROW_PREFIX_Y))
    THEN Answer(<<>>, SelectPrompt, "", FALSE)
    ELSE LET px == ParseKey(clickData.x, COL_PREFIX_X)
             py == ParseKey(clickData.y, ROW_PREFIX_Y)
         IN  IF px = <<>> \/ py = <<>> THEN Raised("ValueError")
             ELSE LET sub == Selected(py[1], py[2], px[1], px[2])
                  IN  Answer([i \in 1..Len(sub) |-> [c \in cols_show |-> sub[i][c]]],
                             DetailTitle(px[1], px[2], py[1], py[2], Len(sub)),
                             "", TRUE)

\* what a session shows before any click: the layout's empty table and title
NotClicked == [served |-> FALSE, click |-> NoClick, answer |-> Answer(<<>>, ClickPrompt, "", FALSE)]

\* an x key with the data prefix and no separator, which the chart never emits
BareXKey == COL_PREFIX_X \o <<"o", "1">>

Range(seq) == {seq[i] : i \in 1..Len(seq)}

\* the click states a browser can send: none, empty, or any pair of axis keys
Clicks ==
    {NoClick, EmptyClick} \cup {Point(x, y) : x \in Range(order_x) \cup {BareXKey}, y \in Range(order_y)}

\* Click with the missing columns added to the long table itself, not to a copy
ClickInPlace(s, c) ==
    /\ pc = "serve"
    /\ detail' = [detail EXCEPT ![s] = [served |-> TRUE, click |-> c, answer |-> show_details(c)]]
    /\ long' = IF show_details(c).read_long
               THEN [cols |-> long.cols \cup cols_show,
                     rows |-> [i \in 1..Len(long.rows) |->
                                 Widen(long.rows[i], long.cols \cup cols_show)]]
               ELSE long
    /\ UNCHANGED <<pc, df, agg, order_y, y_ticktext, y_src, order_x, sessions>>

\* one click of session s, answered by the callback
Click(s, c) ==
    /\ pc = "serve"
    /\ detail' = [detail EXCEPT ![s] = [served |-> TRUE, click |-> c, answer |-> show_details(c)]]
    /\ UNCHANGED <<pc, df, long, agg, order_y, y_ticktext, y_src, order_x, sessions>>

---------------------------------------------------------------------------
(* The inputs of the model *)

Sessions == {"s1", "s2"}

\* article i of the file: its title is t<i>; no Impact classification
WideRow(v, i) ==
    [c \in DfCols |->
        CASE c = COL_L1           -> v.l1
          [] c = COL_L2           -> v.l2
          [] c = COL_TITLE        -> Str(<<"t", Digits[i + 1]>>)
          [] c = COL_INT_OUT      -> v.int
          [] c = COL_INT_STRENGTH -> v.strength
          [] c = COL_INT_SIGN     -> v.sign
          [] c = COL_FIN_OUT      -> v.fin
          [] c = COL_FIN_STRENGTH -> v.strength
          [] c = COL_FIN_SIGN     -> v.sign
          [] OTHER                -> NaN]

Frames(values) ==
    {[cols |-> DfCols, rows |-> [i \in 1..Len(picks) |-> WideRow(picks[i], i)]] :
        picks \in UNION {[1..n -> values] : n \in 0..MaxRows}}

\* level-1 capabilities: one read with a trailing blank, one that ends in " ||",
\* two that start with "surveillance" in different letter cases
L1Values == {Str(<<"G", "o", "v", " ">>), Str(<<"a", " ", "|", "|">>), Str(<<"S", "U", "R", "V", "E", "I", "L", "L", "A", "N", "C", "E">>), Str(<<"S", "u", "r", "v", "e", "i", "l", "l", "a", "n", "c", "e", " ", "x">>)}

\* level-2 sub-capabilities: numeric prefixes 2 and 10000, and no prefix
L2Values == {Str(<<"2", ".", " ", "T">>), Str(<<"1", "0", "0", "0", "0", ".", " ", "X">>), Str(<<"O", "t", "h", "e", "r">>)}

\* an article has a final outcome, and may have an intermediate one
OutcomeValues == {[int |-> Str(<<"o", "1">>), fin |-> Str(<<"o", "2">>)], [int |-> NaN, fin |-> Str(<<"o", "2">>)]}

TaxonomyValues ==
    {[l1 |-> l1, l2 |-> l2, int |-> o.int, fin |-> o.fin,
      strength |-> Num(3, 1), sign |-> Num(1, 1)] :
        l1 \in L1Values, l2 \in L2Values, o \in OutcomeValues}

InitWith(frames, open) ==
    /\ pc = "clean"
    /\ df \in frames
    /\ long = EmptyFrame
    /\ agg = EmptyFrame
    /\ order_y = <<>>
    /\ y_ticktext = <<>>
    /\ y_src = <<>>
    /\ order_x = <<>>
    /\ sessions = open
    /\ detail = [s \in open |-> NotClicked]

\* level 1 with a trailing blank or ending in " ||", level 2 plain or starting
\* with "|| ": two pairs of them build the same y key
ClickValues ==
    {[l1 |-> l1, l2 |-> l2, int |-> o.int, fin |-> o.fin,
      strength |-> Num(3, 1), sign |-> Num(1, 1)] :
        l1 \in {Str(<<"a", " ">>), Str(<<"a", " ", "|", "|">>)}, l2 \in {Str(<<"b">>), Str(<<"|", "|", " ", "b">>)},
        o \in OutcomeValues}

\* strengths around the thresholds of map_strength_label, and a missing one
StrengthValues ==
    {NaN, Num(5, 10), Num(10, 10), Num(12, 10), Num(15, 10), Num(24, 10),
     Num(25, 10), Num(26, 10), Num(3, 1)}

\* the five declared signs, a missing one and one out of range
SignValues == {NaN, Num(-1, 1), Num(-1, 2), Num(0, 1), Num(1, 2), Num(1, 1), Num(2, 1)}

\* one intervention and one intermediate outcome; the scores vary, one at a time
ScoreValues ==
    {[l1 |-> Str(<<"G", "o", "v">>), l2 |-> Str(<<"2", ".", " ", "T">>), int |-> Str(<<"o", "1">>), fin |-> NaN,
      strength |-> v.strength, sign |-> v.sign] :
        v \in {[strength |-> x, sign |-> Num(1, 1)] : x \in StrengthValues}
              \cup {[strength |-> Num(3, 1), sign |-> x] : x \in SignValues}}

\* two articles' worth of values for the sessions: a plain one and one whose
\* level 1 ends in " ||"
SessionValues ==
    {[l1 |-> Str(<<"G", "o", "v">>), l2 |-> Str(<<"2", ".", " ", "T">>), int |-> Str(<<"o", "1">>), fin |-> Str(<<"o", "2">>),
      strength |-> Num(3, 1), sign |-> Num(1, 1)],
     [l1 |-> Str(<<"a", " ", "|", "|">>), l2 |-> Str(<<"O", "t", "h", "e", "r">>), int |-> NaN, fin |-> Str(<<"o", "2">>),
      strength |-> Num(3, 1), sign |-> Num(1, 1)]}

\* the module-level script, from the loaded file to the axes
Startup ==
    \/ Clean
    \/ BuildLong
    \/ Aggregate
    \/ BuildYAxis
    \/ BuildXAxis

\* the script, then the clicks of the open sessions
Next ==
    \/ Clean
    \/ BuildLong
    \/ Aggregate
    \/ BuildYAxis
    \/ BuildXAxis
    \/ \E s \in sessions, c \in Clicks : Click(s, c)

\* any file of at most MaxRows articles whose keys can collide, one session
Init == InitWith(Frames(ClickValues), {"s1"})

Spec == Init /\ [][Next]_vars

\* a small file, two sessions clicking in any order
InitSessions == InitWith(Frames(SessionValues), Sessions)

SpecSessions == InitSessions /\ [][Next]_vars

\* the start-up script alone, on any file of at most MaxRows articles over the
\* taxonomy values
InitTaxonomy == InitWith(Frames(TaxonomyValues), {"s1"})

SpecStartup == InitTaxonomy /\ [][Startup]_vars

\* the start-up script alone, on files whose scores vary
InitScores == InitWith(Frames(ScoreValues), {"s1"})

SpecScores == InitScores /\ [][Startup]_vars

---------------------------------------------------------------------------
(* The claims *)

AggBuilt == pc \in {"yaxis", "xaxis", "serve"}

AxesBuilt == pc = "serve"

AggRows == Range(agg.rows)

Contains(s, sep) == Find(s, sep) # 0

\* C1: for every aggregate row whose four fields do not contain " || ", parsing
\* its y_key gives back its (level 1, level 2) and parsing its x_key gives back
\* its (outcome_type, outcome_name)
C1_KeysRoundTrip ==
    AxesBuilt =>
        \A r \in AggRows :
            (\A c \in {COL_L1, COL_L2, "outcome_type", "outcome_name"} :
                 ~Contains(PyStr(r[c]), SEP))
            => /\ ParseKey(PyStr(r["y_key"]), ROW_PREFIX_Y)
                    = <<PyStr(r[COL_L1]), PyStr(r[COL_L2])>>
               /\ ParseKey(PyStr(r["x_key"]), COL_PREFIX_X)
                    = <<PyStr(r["outcome_type"]), PyStr(r["outcome_name"])>>

\* the click is absent, or one of its keys is not a data key
NonDataClick(c) ==
    \/ c.kind # "point"
    \/ ~StartsWith(c.x, COL_PREFIX_X)
    \/ ~StartsWith(c.y, ROW_PREFIX_Y)

\* C2: a click that is absent, or whose x key does not start with "__XCOL__", or
\* whose y key does not start with "__ROW__", is answered with no record and a
\* placeholder title, raises nothing and does not read the long table
C2_NonDataClickIsHarmless ==
    \A s \in sessions :
        (detail[s].served /\ NonDataClick(detail[s].click))
        => /\ detail[s].answer.data = <<>>
           /\ detail[s].answer.title \in {ClickPrompt, SelectPrompt}
           /\ detail[s].answer.error = ""
           /\ ~detail[s].answer.read_long

\* C2's case: the callback has answered a click on an X header and a data row
C2_HeaderClicked ==
    \E s \in sessions :
        /\ detail[s].served
        /\ detail[s].click.kind = "point"
        /\ StartsWith(detail[s].click.x, HDR_PREFIX_X)
        /\ StartsWith(detail[s].click.y, ROW_PREFIX_Y)
        /\ detail[s].answer.title = SelectPrompt

SameGroup(r, q) ==
    /\ r[COL_L1] = q[COL_L1]
    /\ r[COL_L2] = q[COL_L2]
    /\ r["outcome_type"] = q["outcome_type"]
    /\ r["outcome_name"] = q["outcome_name"]

\* C3: n of every aggregate row is the number of long rows with its four
\* fields, every long row is counted in exactly one aggregate row, and the
\* n's add up to the length of the long table
C3_CountsMatchLongTable ==
    AggBuilt =>
        /\ \A i \in 1..Len(agg.rows) :
              agg.rows[i]["n"] =
                  Num(Cardinality({j \in 1..Len(long.rows) :
                                       SameGroup(long.rows[j], agg.rows[i])}), 1)
        /\ \A j \in 1..Len(long.rows) :
              Cardinality({i \in 1..Len(agg.rows) : SameGroup(long.rows[j], agg.rows[i])}) = 1
        /\ SumCells(Column(agg.rows, "n")) = Num(Len(long.rows), 1)

\* C3's case: two groups, one of them with two long rows
C3_GroupOfTwo ==
    /\ AggBuilt
    /\ Len(agg.rows) >= 2
    /\ \E r \in AggRows : r["n"] = Num(2, 1)

DeclaredSigns == {Num(-1, 1), Num(-1, 2), Num(0, 1), Num(1, 2), Num(1, 1)}

DirectionLabels ==
    {Str(<<"p", "o", "s", "i", "t", "i", "v", "e">>), Str(<<"m", "o", "s", "t", "l", "y", " ", "p", "o", "s", "i", "t", "i", "v", "e">>), Str(<<"i", "n", "c", "o", "n", "c", "l", "u", "s", "i", "v", "e", "/", "m", "i", "x", "e", "d">>),
     Str(<<"m", "o", "s", "t", "l", "y", " ", "n", "e", "g", "a", "t", "i", "v", "e">>), Str(<<"n", "e", "g", "a", "t", "i", "v", "e">>)}

\* the label the stated intervals give the mean n/d (d > 0) in [-1, 1]
IntervalLabel(m) ==
    CASE m.n = m.d                             -> Str(<<"p", "o", "s", "i", "t", "i", "v", "e">>)
      [] 2 * m.n > m.d /\ m.n < m.d            -> Str(<<"m", "o", "s", "t", "l", "y", " ", "p", "o", "s", "i", "t", "i", "v", "e">>)
      [] -m.d < 2 * m.n /\ 2 * m.n <= m.d      -> Str(<<"i", "n", "c", "o", "n", "c", "l", "u", "s", "i", "v", "e", "/", "m", "i", "x", "e", "d">>)
      [] -m.d < m.n /\ 2 * m.n <= -m.d         -> Str(<<"m", "o", "s", "t", "l", "y", " ", "n", "e", "g", "a", "t", "i", "v", "e">>)
      [] m.n = -m.d                            -> Str(<<"n", "e", "g", "a", "t", "i", "v", "e">>)

\* the sign values of the long rows behind aggregate row r
SignsOf(r) == {q["sign"] : q \in {x \in Range(long.rows) : SameGroup(x, r)}}

\* C4: an aggregate row whose signs are all among -1, -0.5, 0, 0.5, 1 gets one
\* of the five labels, the one of the interval its mean lies in (0.5 is
\* "inconclusive/mixed", -0.5 is "mostly negative"); a missing mean gets "N/A";
\* a mean outside [-1, 1] gets no label
C4_DirectionLabels ==
    AggBuilt =>
        \A r \in AggRows :
            LET m == r["mean_direction"]
                label == r["direction_label"]
            IN  /\ SignsOf(r) \subseteq DeclaredSigns => label \in DirectionLabels
                /\ isna(m) => label = Str(<<"N", "/", "A">>)
                /\ (~isna(m) /\ -m.d <= m.n /\ m.n <= m.d) => label = IntervalLabel(m)
                /\ (~isna(m) /\ (m.n < -m.d \/ m.n > m.d)) => label = None

\* C4's case: the signs -1 and 0 of two articles average to the boundary -0.5
C4_MeanOnBoundary ==
    /\ AggBuilt
    /\ \E r \in AggRows :
          /\ r["n"] = Num(2, 1)
          /\ SignsOf(r) = {Num(-1, 1), Num(0, 1)}
          /\ r["direction_label"] = Str(<<"m", "o", "s", "t", "l", "y", " ", "n", "e", "g", "a", "t", "i", "v", "e">>)

\* C5: a mean strength of at least 2.6 is "high", of at least 2.4 "moderate", of
\* at least 1.5 "low-moderate", of at least 1.0 "low", anything lower "very
\* low", a missing one "N/A"
C5_StrengthLabels ==
    AggBuilt =>
        \A r \in AggRows :
            LET m == r["mean_strength"]
                label == r["strength_label"]
            IN  IF isna(m) THEN label = Str(<<"N", "/", "A">>)
                ELSE /\ 10 * m.n >= 26 * m.d => label = Str(<<"h", "i", "g", "h">>)
                     /\ (10 * m.n >= 24 * m.d /\ 10 * m.n < 26 * m.d) => label = Str(<<"m", "o", "d", "e", "r", "a", "t", "e">>)
                     /\ (10 * m.n >= 15 * m.d /\ 10 * m.n < 24 * m.d) => label = Str(<<"l", "o", "w", "-", "m", "o", "d", "e", "r", "a", "t", "e">>)
                     /\ (10 * m.n >= 10 * m.d /\ 10 * m.n < 15 * m.d) => label = Str(<<"l", "o", "w">>)
                     /\ 10 * m.n < 10 * m.d => label = Str(<<"v", "e", "r", "y", " ", "l", "o", "w">>)

\* C5's case: the strengths 2.6 and 2.6 of two articles average to the boundary 2.6
C5_MeanOnBoundary ==
    /\ AggBuilt
    /\ \E r \in AggRows :
          /\ r["n"] = Num(2, 1)
          /\ NumEq(r["mean_strength"], Num(26, 10))
          /\ r["strength_label"] = Str(<<"h", "i", "g", "h">>)

SurveillanceSmall == <<"s", "u", "r", "v", "e", "i", "l", "l", "a", "n", "c", "e">>

SurveillanceCapital == <<"S", "U", "R", "V", "E", "I", "L", "L", "A", "N", "C", "E">>

\* the name starts with "surveillance", each letter in either case
SurveillanceName(l) ==
    /\ Len(PyStr(l)) >= 12
    /\ \A k \in 1..12 :
          PyStr(l)[k] \in {SurveillanceSmall[k], SurveillanceCapital[k]}

\* the first row of the aggregate table with level 1 l
FirstInAgg(l) ==
    CHOOSE i \in 1..Len(agg.rows) :
        /\ agg.rows[i][COL_L1] = l
        /\ \A j \in 1..(i - 1) : agg.rows[j][COL_L1] # l

\* C6: in order_y the header and rows of every capability that starts with
\* "surveillance" (in any case) come before those of every other capability,
\* and the capabilities of each of the two kinds keep the order of their first
\* rows in the aggregate table
C6_SurveillanceFirst ==
    AxesBuilt =>
        \A i, j \in 1..Len(order_y) :
            LET a == y_src[i].l1
                b == y_src[j].l1
            IN  /\ (SurveillanceName(a) /\ ~SurveillanceName(b)) => i < j
                /\ (/\ SurveillanceName(a) = SurveillanceName(b)
                    /\ FirstInAgg(a) < FirstInAgg(b)) => i < j

\* C6's case: a surveillance capability is listed before one that precedes it
\* in the aggregate table
C6_SurveillanceMovedUp ==
    /\ AxesBuilt
    /\ \E i, j \in 1..Len(order_y) :
          /\ i < j
          /\ SurveillanceName(y_src[i].l1)
          /\ ~SurveillanceName(y_src[j].l1)
          /\ FirstInAgg(y_src[j].l1) < FirstInAgg(y_src[i].l1)
          /\ PyStr(y_src[i].l1) # Lower(PyStr(y_src[i].l1))

HasNumPrefix(l2) == l2_match(PyStr(l2)) # <<>>

\* C7: among the rows of one level-1 group of order_y, a smaller numeric
\* prefix comes first, and a label with a numeric prefix comes before every
\* label without one
C7_NumericPrefixOrder ==
    AxesBuilt =>
        \A i, j \in 1..Len(order_y) :
            (~y_src[i].hdr /\ ~y_src[j].hdr /\ y_src[i].l1 = y_src[j].l1)
            => /\ (/\ HasNumPrefix(y_src[i].l2)
                   /\ HasNumPrefix(y_src[j].l2)
                   /\ ToInt(l2_match(PyStr(y_src[i].l2))) < ToInt(l2_match(PyStr(y_src[j].l2))))
                  => i < j
               /\ (HasNumPrefix(y_src[i].l2) /\ ~HasNumPrefix(y_src[j].l2)) => i < j

\* C8: a click changes neither the long table nor the aggregate table, and the
\* answer a session shows is the callback's answer to that session's click alone
C8_ClicksReadOnly ==
    [][pc = "serve" =>
          /\ long' = long
          /\ agg' = agg
          /\ \A s \in sessions :
                detail'[s].served => detail'[s].answer = show_details(detail'[s].click)]_vars

\* C8's case: two sessions have been answered, one with records and one without
C8_TwoSessionsAnswered ==
    \E s, t \in sessions :
        /\ s # t
        /\ detail[s].served
        /\ detail[t].served
        /\ Len(detail[s].answer.data) > 0
        /\ detail[t].answer.data = <<>>
        /\ detail[t].click.kind = "point"

\* C9: order_y holds no key twice; each header is followed by one row key per
\* distinct level 2 of its group; y_ticktext is as long as order_y and its entry
\* i is the label of key i
C9_OneEntryPerSubCapability ==
    AxesBuilt =>
        /\ \A i, j \in 1..Len(order_y) : order_y[i] = order_y[j] => i = j
        /\ \A i, j \in 1..Len(order_y) :
              (~y_src[i].hdr /\ ~y_src[j].hdr /\ y_src[i].l1 = y_src[j].l1
               /\ y_src[i].l2 = y_src[j].l2) => i = j
        /\ Len(y_ticktext) = Len(order_y)
        /\ \A i \in 1..Len(order_y) :
              y_ticktext[i] = IF y_src[i].hdr THEN <<" ">>
                              ELSE make_row_label(y_src[i].l2, 40, 3)

\* C10: a click on an aggregate row's own (x_key, y_key) returns exactly the
\* long rows of that row's group: n records, and n in the title
C10_ClickReturnsTheGroup ==
    AxesBuilt =>
        \A s \in sessions : \A r \in AggRows :
            (detail[s].served
             /\ detail[s].click = Point(PyStr(r["x_key"]), PyStr(r["y_key"])))
            => LET rows == SelectSeq(long.rows, LAMBDA q : SameGroup(q, r))
               IN  /\ detail[s].answer.error = ""
                   /\ detail[s].answer.data =
                         [i \in 1..Len(rows) |-> [c \in cols_show |-> Widen(rows[i], cols_show)[c]]]
                   /\ Num(Len(detail[s].answer.data), 1) = r["n"]
                   /\ Num(detail[s].answer.title.count, 1) = r["n"]

=============================================================================
